---- MODULE Spec2Model ----
\* A model of tiled/database/core.py: the schema-revision check, the database
\* bootstrap, identity provisioning (create_user, make_admin_by_identity) and the
\* purge of expired records, each against a shared transactional store.
EXTENDS Integers, Sequences, FiniteSets, Bags, TLC

\* ---------------------------------------------------------------- bounds

\* Sessions (one per thread or request) working on the shared store.
NumSessions == 2
\* Calls of create_user / make_admin_by_identity started in one run.
MaxCalls == 2
\* Rows of the expirable tables a store starts with.
MaxRecords == 2
\* The timestamps run over 0 .. MaxTime.
MaxTime == 1
\* Calls of purge_expired started in one run.
MaxPurges == 2
\* initialize_database attempts in one run.
MaxInitAttempts == 2

\* ---------------------------------------------------------------- values

None == "None"

\* core.py:14 and core.py:16.
REQUIRED_REVISION == "481830dd6c11"
ALL_REVISIONS == {"481830dd6c11"}

\* A revision of an earlier release, and one no release of the software knows.
OLDER_REVISION == "older"
FOREIGN_REVISION == "foreign"
Revisions == {REQUIRED_REVISION, OLDER_REVISION, FOREIGN_REVISION}

\* The module global ALL_REVISIONS as read at call time: as shipped, and as it
\* is once a release recognizes an earlier revision beside the required one.
RecognizedConfigs == {ALL_REVISIONS, ALL_REVISIONS \cup {OLDER_REVISION}}

Providers == {"local", "orcid"}
ExternalIds == {"alice"}
Sessions == 1..NumSessions

\* A session between two calls. `after` counts the calls that had ended when
\* the call began.
IdleCall ==
    [op |-> None, provider |-> None, id |-> None, after |-> 0, principal |-> 0,
     found |-> FALSE, loaded |-> {}, wrote |-> {},
     kind |-> None, now |-> 0, objs |-> {}, commits |-> 0]

VARIABLES
    \* the store
    known,          \* the recognized revisions (ALL_REVISIONS) in force
    tables,         \* whether the tables exist
    heads,          \* the revision heads stamped in the migration history
    roles,          \* the Role rows, in insertion order
    principals,     \* the Principal rows: id |-> type, ids 1 .. Len
    principal_role, \* the association rows <<principal id, role name>>, a bag
    membershipUnique, \* whether the association has a uniqueness constraint
    identities,     \* the Identity rows
    records,        \* the rows of the expirable tables
    \* the callers
    initPc,         \* where initialize_database stands
    initAttempts,   \* initialize_database calls started
    lastCheck,      \* outcome of the latest check_database / get_current_revision
    pc,             \* per session: where its call stands
    call,           \* per session: the call in progress and its locals
    calls,          \* calls started so far
    overlapped,     \* whether two calls ever ran at the same time
    log,            \* the calls that ended, in order of their end
    clock           \* the latest value utcnow() returned

storeVars == <<known, tables, heads, roles, principals, principal_role,
               membershipUnique, identities, records>>
schemaVars == <<initPc, initAttempts, lastCheck>>
sessionVars == <<pc, call, calls, overlapped, log, clock>>
vars == <<storeVars, schemaVars, sessionVars>>

\* ------------------------------------------------- the schema version oracle

Return(v) == [kind |-> "return", value |-> v, mentions |-> {}]
Raise(e, m) == [kind |-> e, value |-> None, mentions |-> m]

\* get_current_revision without its test of membership in ALL_REVISIONS.
get_current_revision_any(hs, all) ==
    IF hs = {} THEN Return(None)
    ELSE IF Cardinality(hs) # 1 THEN Raise("UnrecognizedDatabase", hs)
    ELSE Return(CHOOSE r \in hs : TRUE)

\* get_current_revision, given the heads its read transaction found.
get_current_revision(hs, all) ==
    IF hs = {} THEN Return(None)
    ELSE IF Cardinality(hs) # 1 THEN Raise("UnrecognizedDatabase", hs)
    ELSE LET revision == CHOOSE r \in hs : TRUE
         IN  IF revision \notin all
             THEN Raise("UnrecognizedDatabase", {revision})
             ELSE Return(revision)

\* check_database without its branch for a store with no revision stamp.
check_database_unstamped(hs, all) ==
    LET got == get_current_revision(hs, all)
    IN  IF got.kind # "return" THEN got
        ELSE IF got.value # REQUIRED_REVISION
             THEN Raise("DatabaseUpgradeNeeded", {got.value, REQUIRED_REVISION})
        ELSE Return(None)

\* check_database whose upgrade message leaves out the store's revision.
check_database_terse(hs, all) ==
    LET got == get_current_revision(hs, all)
    IN  IF got.kind # "return" THEN got
        ELSE IF got.value = None
             THEN Raise("UninitializedDatabase", {})
        ELSE IF got.value # REQUIRED_REVISION
             THEN Raise("DatabaseUpgradeNeeded", {REQUIRED_REVISION})
        ELSE Return(None)

\* check_database that accepts every recognized revision.
check_database_lenient(hs, all) ==
    LET got == get_current_revision(hs, all)
    IN  IF got.kind # "return" THEN got
        ELSE IF got.value = None
             THEN Raise("UninitializedDatabase", {})
        ELSE Return(None)

\* check_database: the exceptions of get_current_revision propagate.
check_database(hs, all) ==
    LET got == get_current_revision(hs, all)
    IN  IF got.kind # "return" THEN got
        ELSE IF got.value = None
             THEN Raise("UninitializedDatabase", {})
        ELSE IF got.value # REQUIRED_REVISION
             THEN Raise("DatabaseUpgradeNeeded", {got.value, REQUIRED_REVISION})
        ELSE Return(None)

\* A get_current_revision that resolves several heads by keeping one.
GetCurrentRevisionCallMerging ==
    /\ lastCheck' = [op |-> "get_current_revision", saw |-> heads,
                     out |-> get_current_revision(heads, known)]
    /\ heads' = IF Cardinality(heads) > 1
                THEN {CHOOSE r \in heads : TRUE} ELSE heads
    /\ UNCHANGED <<known, tables, roles, principals, principal_role,
                   membershipUnique, identities, records,
                   initPc, initAttempts, sessionVars>>

\* One call of get_current_revision(engine): a read transaction, no write.
GetCurrentRevisionCall ==
    /\ lastCheck' = [op |-> "get_current_revision", saw |-> heads,
                     out |-> get_current_revision(heads, known)]
    /\ UNCHANGED <<storeVars, initPc, initAttempts, sessionVars>>

\* A check_database that stamps an unstamped store on its way out.
CheckDatabaseCallStamping ==
    /\ lastCheck' = [op |-> "check_database", saw |-> heads,
                     out |-> check_database(heads, known)]
    /\ heads' = IF heads = {} THEN {REQUIRED_REVISION} ELSE heads
    /\ UNCHANGED <<known, tables, roles, principals, principal_role,
                   membershipUnique, identities, records,
                   initPc, initAttempts, sessionVars>>

\* One call of check_database(engine).
CheckDatabaseCall ==
    /\ lastCheck' = [op |-> "check_database", saw |-> heads,
                     out |-> check_database(heads, known)]
    /\ UNCHANGED <<storeVars, initPc, initAttempts, sessionVars>>

\* ------------------------------------------------------------ the bootstrap

UserScopes == <<"read:metadata", "read:data", "apikeys">>
AdminScopes == <<"read:metadata", "read:data", "admin:apikeys",
                 "read:principals", "metrics">>

\* Default roles whose admin row carries apikeys in place of admin:apikeys.
DefaultRolesAdminApikeys ==
    << [name |-> "user", description |-> "Default Role for users.",
        scopes |-> UserScopes],
       [name |-> "admin", description |-> "Default Role for services.",
        scopes |-> <<"read:metadata", "read:data", "apikeys",
                     "read:principals", "metrics">>] >>

\* The two rows create_default_roles adds before its one commit.
DefaultRoles ==
    << [name |-> "user", description |-> "Default Role for users.",
        scopes |-> UserScopes],
       [name |-> "admin", description |-> "Default Role for services.",
        scopes |-> AdminScopes] >>

RoleNames(rs) == {rs[i].name : i \in 1..Len(rs)}

\* The head of the migration scripts, which command.stamp(cfg, "head") writes.
ScriptHead == REQUIRED_REVISION

\* initialize_database is called; its caller has seen get_current_revision
\* report None.
InitializeBegin ==
    /\ initPc \in {"idle", "done", "failed", "refused"}
    /\ initAttempts < MaxInitAttempts
    /\ get_current_revision(heads, known) = Return(None)
    /\ initPc' = "create_all"
    /\ initAttempts' = initAttempts + 1
    /\ UNCHANGED <<storeVars, lastCheck, sessionVars>>

\* An initialize_database that goes from create_all straight to the stamp.
CreateAllThenStamp ==
    /\ initPc = "create_all"
    /\ tables' = TRUE
    /\ initPc' = "stamp"
    /\ UNCHANGED <<known, heads, roles, principals, principal_role,
                   membershipUnique, identities, records,
                   initAttempts, lastCheck, sessionVars>>

\* Base.metadata.create_all(engine): creates the tables that are missing.
CreateAll ==
    /\ initPc = "create_all"
    /\ tables' = TRUE
    /\ initPc' = "roles"
    /\ UNCHANGED <<known, heads, roles, principals, principal_role,
                   membershipUnique, identities, records,
                   initAttempts, lastCheck, sessionVars>>

\* A Role table that takes any row.
RoleInsertAcceptedAlways(rs, new) == TRUE

\* Role.name is unique: the store refuses rows whose name is taken.
RoleInsertAccepted(rs, new) == RoleNames(rs) \cap RoleNames(new) = {}

\* create_default_roles(engine): two rows added, one commit, which raises
\* when the store refuses the rows ("refused").
CreateDefaultRoles ==
    /\ initPc = "roles"
    /\ IF RoleInsertAccepted(roles, DefaultRoles)
       THEN /\ roles' = roles \o DefaultRoles
            /\ initPc' = "stamp"
       ELSE /\ roles' = roles
            /\ initPc' = "refused"
    /\ UNCHANGED <<known, tables, heads, principals, principal_role,
                   membershipUnique, identities, records,
                   initAttempts, lastCheck, sessionVars>>

\* command.stamp(alembic_cfg, "head").
StampHead ==
    /\ initPc = "stamp"
    /\ heads' = {ScriptHead}
    /\ initPc' = "done"
    /\ UNCHANGED <<known, tables, roles, principals, principal_role,
                   membershipUnique, identities, records,
                   initAttempts, lastCheck, sessionVars>>

\* Any step of initialize_database may raise (the store is unreachable, the
\* DDL is refused): the exception propagates and nothing is undone.
InitializeFails ==
    /\ initPc \in {"create_all", "roles", "stamp"}
    /\ initPc' = "failed"
    /\ UNCHANGED <<storeVars, initAttempts, lastCheck, sessionVars>>

NoCheck == [op |-> None, saw |-> {}, out |-> Return(None)]

\* What a store that has been in use holds: an administrator and an API key.
PopulatedStore ==
    [principals |-> << [type |-> "user", madeFor |-> <<"local", "alice">>] >>,
     principal_role |-> SetToBag({<<1, "user">>, <<1, "admin">>}),
     identities |-> {[provider |-> "local", id |-> "alice",
                      principal_id |-> 1]},
     records |-> {[id |-> 1, kind |-> "APIKey", expiration_time |-> << >>]}]

\* The stores a process may be pointed at: empty, stamped by this or another
\* release, by another application, or with several heads; a store this
\* software stamped may have been in use.
SchemaInit ==
    /\ known \in RecognizedConfigs
    /\ heads \in SUBSET Revisions
    /\ tables = (heads # {})
    /\ membershipUnique \in BOOLEAN
    /\ \E populated \in {p \in BOOLEAN : p => heads \cap ALL_REVISIONS # {}} :
          IF populated
          THEN /\ roles = DefaultRoles
               /\ principals = PopulatedStore.principals
               /\ principal_role = PopulatedStore.principal_role
               /\ identities = PopulatedStore.identities
               /\ records = PopulatedStore.records
          ELSE /\ roles = << >>
               /\ principals = << >>
               /\ principal_role = EmptyBag
               /\ identities = {}
               /\ records = {}
    /\ initPc = "idle"
    /\ initAttempts = 0
    /\ lastCheck = NoCheck
    /\ pc = [s \in Sessions |-> "idle"]
    /\ call = [s \in Sessions |-> IdleCall]
    /\ calls = 0
    /\ overlapped = FALSE
    /\ log = << >>
    /\ clock = 0

SchemaNext ==
    \/ GetCurrentRevisionCall
    \/ CheckDatabaseCall
    \/ InitializeBegin
    \/ CreateAll
    \/ CreateDefaultRoles
    \/ StampHead
    \/ InitializeFails

SpecSchema == SchemaInit /\ [][SchemaNext]_vars

\* ------------------------------------------------- the identity provisioner

\* db.query(Role).filter(Role.name == name).first(): the first row of that
\* name, or None.
FindRole(rs, name) ==
    IF \E i \in 1..Len(rs) : rs[i].name = name
    THEN rs[CHOOSE i \in 1..Len(rs) :
                /\ rs[i].name = name
                /\ \A j \in 1..(i - 1) : rs[j].name # name].name
    ELSE None

\* The scopes of the row FindRole finds.
ScopesOf(rs, name) ==
    rs[CHOOSE i \in 1..Len(rs) :
          /\ rs[i].name = name
          /\ \A j \in 1..(i - 1) : rs[j].name # name].scopes

\* db.query(Identity).filter(Identity.id == id)
\*   .filter(Identity.provider == identity_provider).first()
FindIdentity(ids, provider, id) ==
    {i \in ids : i.id = id /\ i.provider = provider}

\* Identity is unique on (provider, id): the store refuses a second row.
IdentityInsertAccepted(ids, row) ==
    ~ \E i \in ids : i.provider = row.provider /\ i.id = row.id

\* The rows of the association a flush inserts for a Principal.roles
\* collection that was loaded as `loaded` and then had `appended` appended:
\* one per appended role that the loaded collection did not hold.
RowsToInsert(loaded, appended) == appended \ loaded

\* Role.first() returned None and the None was appended to principal.roles:
\* the flush inside db.commit() refuses a None in a collection and raises the
\* ORM's FlushError; nothing of that commit is written.
FlushRaises(appended) == None \in appended

\* Whether the store takes a new association row.
MembershipInsertAccepted(assoc, unique, row) ==
    ~ unique \/ CopiesIn(row, assoc) = 0

\* The roles bound to a principal in the store, as a lazy load of
\* Principal.roles finds them.
RolesOf(assoc, p) == {r[2] : r \in {x \in BagToSet(assoc) : x[1] = p}}

Busy(s) == pc[s] # "idle"

\* The call of session s ends: with a return value, or with the exception
\* that propagates to its caller.
Ended(s, c, result, ret) ==
    /\ pc' = [pc EXCEPT ![s] = "idle"]
    /\ call' = [call EXCEPT ![s] = IdleCall]
    /\ log' = Append(log, [op |-> c.op,
                           provider |-> c.provider, id |-> c.id,
                           after |-> c.after,
                           result |-> result, ret |-> ret,
                           found |-> c.found, wrote |-> c.wrote,
                           kind |-> c.kind, now |-> c.now,
                           commits |-> c.commits])

\* A caller invokes create_user(db, identity_provider, id) on its session.
CreateUserBegin(s, provider, id) ==
    /\ ~ Busy(s)
    /\ calls < MaxCalls
    /\ calls' = calls + 1
    /\ overlapped' = (overlapped \/ \E t \in Sessions \ {s} : Busy(t))
    /\ pc' = [pc EXCEPT ![s] = "add_principal"]
    /\ call' = [call EXCEPT ![s] =
                 [IdleCall EXCEPT !.op = "create_user",
                                  !.provider = provider, !.id = id,
                                  !.after = Len(log)]]
    /\ UNCHANGED <<storeVars, schemaVars, log, clock>>

\* A caller invokes make_admin_by_identity(db, identity_provider, id).
MakeAdminBegin(s, provider, id) ==
    /\ ~ Busy(s)
    /\ calls < MaxCalls
    /\ calls' = calls + 1
    /\ overlapped' = (overlapped \/ \E t \in Sessions \ {s} : Busy(t))
    /\ pc' = [pc EXCEPT ![s] = "lookup"]
    /\ call' = [call EXCEPT ![s] =
                 [IdleCall EXCEPT !.op = "make_admin_by_identity",
                                  !.provider = provider, !.id = id,
                                  !.after = Len(log)]]
    /\ UNCHANGED <<storeVars, schemaVars, log, clock>>

\* make_admin_by_identity that never looks the identity up and always
\* provisions a new user.
LookupIdentityNever(s) ==
    /\ pc[s] = "lookup"
    /\ pc' = [pc EXCEPT ![s] = "add_principal"]
    /\ UNCHANGED <<storeVars, schemaVars, call, calls, overlapped, log, clock>>

\* make_admin_by_identity, the lookup of the Identity row and the branch on
\* it: identity.principal when the row is there, create_user when it is not.
LookupIdentity(s) ==
    /\ pc[s] = "lookup"
    /\ LET hit == FindIdentity(identities, call[s].provider, call[s].id)
       IN  IF hit = {}
           THEN /\ pc' = [pc EXCEPT ![s] = "add_principal"]
                /\ call' = call
           ELSE \E i \in hit :
                /\ pc' = [pc EXCEPT ![s] = "grant"]
                /\ call' = [call EXCEPT ![s].found = TRUE,
                                        ![s].principal = i.principal_id]
    /\ UNCHANGED <<storeVars, schemaVars, calls, overlapped, log, clock>>

\* create_user, up to its first commit: a Principal of type user with the
\* user role appended is added and committed; the store assigns its id.
AddPrincipal(s) ==
    /\ pc[s] = "add_principal"
    /\ LET user_role == FindRole(roles, "user")
           pid == Len(principals) + 1
           rows == RowsToInsert({}, {user_role})
       IN  IF FlushRaises({user_role})
           THEN /\ principals' = principals
                /\ principal_role' = principal_role
                /\ Ended(s, call[s], "FlushError", 0)
           ELSE /\ principals' = Append(principals,
                       [type |-> "user",
                        madeFor |-> <<call[s].provider, call[s].id>>])
                /\ principal_role' = principal_role (+)
                       SetToBag({<<pid, r>> : r \in rows})
                /\ call' = [call EXCEPT
                       ![s].principal = pid,
                       ![s].wrote = @ \cup {"principal"}
                                      \cup {"binding:" \o r : r \in rows}]
                /\ pc' = [pc EXCEPT ![s] = "add_identity"]
                /\ log' = log
    /\ UNCHANGED <<known, tables, heads, roles, membershipUnique, identities,
                   records, schemaVars, calls, overlapped, clock>>

\* create_user that builds the Identity before the store has assigned the
\* Principal its id.
AddIdentityDangling(s) ==
    /\ pc[s] = "add_identity"
    /\ LET c == call[s]
           row == [provider |-> c.provider, id |-> c.id, principal_id |-> 0]
       IN  IF IdentityInsertAccepted(identities, row)
           THEN /\ identities' = identities \cup {row}
                /\ Ended(s, [c EXCEPT !.wrote = @ \cup {"identity"}],
                         "ok", c.principal)
           ELSE /\ identities' = identities
                /\ Ended(s, c, "IntegrityError", 0)
    /\ UNCHANGED <<known, tables, heads, roles, principals, principal_role,
                   membershipUnique, records, schemaVars, calls, overlapped,
                   clock>>

\* create_user, from the refresh to its second commit: the Identity row is
\* added and committed. The commit raises when the store refuses the row.
AddIdentity(s) ==
    /\ pc[s] = "add_identity"
    /\ LET c == call[s]
           row == [provider |-> c.provider, id |-> c.id,
                   principal_id |-> c.principal]
       IN  IF IdentityInsertAccepted(identities, row)
           THEN /\ identities' = identities \cup {row}
                /\ IF c.op = "create_user"
                   THEN /\ Ended(s, [c EXCEPT !.wrote = @ \cup {"identity"}],
                                 "ok", c.principal)
                   ELSE /\ pc' = [pc EXCEPT ![s] = "grant"]
                        /\ call' = [call EXCEPT
                                      ![s].wrote = @ \cup {"identity"}]
                        /\ log' = log
           ELSE /\ identities' = identities
                /\ Ended(s, c, "IntegrityError", 0)
    /\ UNCHANGED <<known, tables, heads, roles, principals, principal_role,
                   membershipUnique, records, schemaVars, calls, overlapped,
                   clock>>

\* make_admin_by_identity that adds the admin binding without looking at the
\* roles the principal holds.
AppendAdminUnloaded(s) ==
    /\ pc[s] = "grant"
    /\ call' = [call EXCEPT ![s].loaded = {}]
    /\ pc' = [pc EXCEPT ![s] = "commit"]
    /\ UNCHANGED <<storeVars, schemaVars, calls, overlapped, log, clock>>

\* make_admin_by_identity: the admin role is looked up and appended to
\* principal.roles, which loads the collection from the store.
AppendAdmin(s) ==
    /\ pc[s] = "grant"
    /\ call' = [call EXCEPT
                  ![s].loaded = RolesOf(principal_role, call[s].principal)]
    /\ pc' = [pc EXCEPT ![s] = "commit"]
    /\ UNCHANGED <<storeVars, schemaVars, calls, overlapped, log, clock>>

\* make_admin_by_identity that returns without the admin row being written.
CommitAdminNoInsert(s) ==
    /\ pc[s] = "commit"
    /\ principal_role' = principal_role
    /\ Ended(s, call[s], "ok", call[s].principal)
    /\ UNCHANGED <<known, tables, heads, roles, principals, membershipUnique,
                   identities, records, schemaVars, calls, overlapped, clock>>

\* make_admin_by_identity, its commit and return.
CommitAdmin(s) ==
    /\ pc[s] = "commit"
    /\ LET c == call[s]
           admin_role == FindRole(roles, "admin")
           rows == {<<c.principal, r>> :
                       r \in RowsToInsert(c.loaded, {admin_role})}
       IN  IF FlushRaises({admin_role})
           THEN /\ principal_role' = principal_role
                /\ Ended(s, c, "FlushError", 0)
           ELSE IF \A row \in rows :
                 MembershipInsertAccepted(principal_role, membershipUnique, row)
           THEN /\ principal_role' = principal_role (+) SetToBag(rows)
                /\ Ended(s, [c EXCEPT !.wrote = @ \cup
                                {"binding:" \o row[2] : row \in rows}],
                         "ok", c.principal)
           ELSE /\ principal_role' = principal_role
                /\ Ended(s, c, "IntegrityError", 0)
    /\ UNCHANGED <<known, tables, heads, roles, principals, membershipUnique,
                   identities, records, schemaVars, calls, overlapped, clock>>

\* A store that initialize_database has set up, or one whose Role table
\* lacks both built-in rows or the admin row; no principal yet.
UsersInit ==
    /\ known = ALL_REVISIONS
    /\ tables = TRUE
    /\ heads = {REQUIRED_REVISION}
    /\ roles \in {DefaultRoles, << >>, SubSeq(DefaultRoles, 1, 1)}
    /\ principals = << >>
    /\ principal_role = EmptyBag
    /\ membershipUnique \in BOOLEAN
    /\ identities = {}
    /\ records = {}
    /\ initPc = "idle"
    /\ initAttempts = 0
    /\ lastCheck = NoCheck
    /\ pc = [s \in Sessions |-> "idle"]
    /\ call = [s \in Sessions |-> IdleCall]
    /\ calls = 0
    /\ overlapped = FALSE
    /\ log = << >>
    /\ clock = 0

UsersNext ==
    \E s \in Sessions :
        \/ \E p \in Providers, i \in ExternalIds : CreateUserBegin(s, p, i)
        \/ \E p \in Providers, i \in ExternalIds : MakeAdminBegin(s, p, i)
        \/ LookupIdentity(s)
        \/ AddPrincipal(s)
        \/ AddIdentity(s)
        \/ AppendAdmin(s)
        \/ CommitAdmin(s)

SpecUsers == UsersInit /\ [][UsersNext]_vars

\* ----------------------------------------------------- the expiry reaper

\* The record kinds purge_expired is called with (its cls).
Kinds == {"APIKey", "Session"}
Times == 0..MaxTime

\* expiration_time: << >> is NULL, <<t>> is the timestamp t.
Null == << >>
At(t) == <<t>>

\* The rows an expirable table may hold.
ExpirableRows ==
    [id : 1..MaxRecords, kind : Kinds,
     expiration_time : {Null} \cup {At(t) : t \in Times}]

\* `cls.expiration_time is not None`: Python's identity test on the column
\* attribute itself, which is never None; the filter gets the constant True
\* and lets every row through.
IsNotNoneFilter(row) == TRUE

\* SQL's `a < b` on a nullable column: NULL when a is NULL.
SqlLess(a, b) ==
    IF a = Null THEN "NULL" ELSE IF a[1] < b THEN "TRUE" ELSE "FALSE"

\* A query that takes a row without an expiration time for an expired one.
SelectedNullExpires(row, cls, now) ==
    /\ row.kind = cls
    /\ SqlLess(row.expiration_time, now) # "FALSE"

\* db.query(cls).filter(cls.expiration_time is not None)
\*   .filter(cls.expiration_time < now): a row is returned when every filter
\* is true of it.
Selected(row, cls, now) ==
    /\ row.kind = cls
    /\ IsNotNoneFilter(row)
    /\ SqlLess(row.expiration_time, now) = "TRUE"

\* purge_expired(cls, db) is called: it reads the clock once and runs its
\* query, marking each row it returns for deletion.
PurgeBegin(s, cls) ==
    /\ ~ Busy(s)
    /\ calls < MaxPurges
    /\ calls' = calls + 1
    /\ overlapped' = (overlapped \/ \E t \in Sessions \ {s} : Busy(t))
    /\ \E now \in clock..MaxTime :
          /\ clock' = now
          /\ call' = [call EXCEPT ![s] =
                [IdleCall EXCEPT
                    !.op = "purge_expired", !.kind = cls, !.now = now,
                    !.after = Len(log),
                    !.objs = {row.id : row \in
                                {r \in records : Selected(r, cls, now)}}]]
    /\ pc' = [pc EXCEPT ![s] = "purge_commit"]
    /\ UNCHANGED <<storeVars, schemaVars, log>>

\* purge_expired that commits whether or not a row was marked.
PurgeEndAlwaysCommits(s) ==
    /\ pc[s] = "purge_commit"
    /\ LET c == call[s]
       IN  /\ records' = {r \in records : r.id \notin c.objs}
           /\ Ended(s, [c EXCEPT !.commits = 1,
                                 !.wrote = IF c.objs # {}
                                           THEN {"delete"} ELSE {}],
                    "ok", c.kind)
    /\ UNCHANGED <<known, tables, heads, roles, principals, principal_role,
                   membershipUnique, identities, schemaVars, calls,
                   overlapped, clock>>

\* purge_expired, its end: one commit when a row was marked, which deletes
\* the marked rows still in the store; then cls is returned.
PurgeEnd(s) ==
    /\ pc[s] = "purge_commit"
    /\ LET c == call[s]
           deleted == c.objs # {}
       IN  /\ records' = IF deleted
                         THEN {r \in records : r.id \notin c.objs}
                         ELSE records
           /\ Ended(s, [c EXCEPT !.commits = IF deleted THEN 1 ELSE 0,
                                 !.wrote = IF deleted THEN {"delete"} ELSE {}],
                    "ok", c.kind)
    /\ UNCHANGED <<known, tables, heads, roles, principals, principal_role,
                   membershipUnique, identities, schemaVars, calls,
                   overlapped, clock>>

\* A store with some expirable rows, each id used once.
PurgeInit ==
    /\ known = ALL_REVISIONS
    /\ tables = TRUE
    /\ heads = {REQUIRED_REVISION}
    /\ roles = DefaultRoles
    /\ principals = << >>
    /\ principal_role = EmptyBag
    /\ membershipUnique = TRUE
    /\ identities = {}
    /\ \E present \in SUBSET (1..MaxRecords) :
       \E row \in [present -> ExpirableRows] :
          /\ \A i \in present : row[i].id = i
          /\ records = {row[i] : i \in present}
    /\ initPc = "idle"
    /\ initAttempts = 0
    /\ lastCheck = NoCheck
    /\ pc = [s \in Sessions |-> "idle"]
    /\ call = [s \in Sessions |-> IdleCall]
    /\ calls = 0
    /\ overlapped = FALSE
    /\ log = << >>
    /\ clock = 0

PurgeNext ==
    \E s \in Sessions :
        \/ \E cls \in Kinds : PurgeBegin(s, cls)
        \/ PurgeEnd(s)

SpecPurge == PurgeInit /\ [][PurgeNext]_vars

\* ------------------------------------------------ claims: schema revision

\* C1: on a store with zero revision heads check_database raises
\* UninitializedDatabase, and once initialize_database has completed on that
\* store check_database returns normally: the stamped head is the required
\* revision.
C1_UninitializedThenInitialized ==
    /\ heads = {} =>
           check_database(heads, known) = Raise("UninitializedDatabase", {})
    /\ initPc = "done" =>
           /\ heads = {REQUIRED_REVISION}
           /\ check_database(heads, known) = Return(None)
    /\ lastCheck.op = "check_database" =>
           /\ lastCheck.saw = {} =>
                  lastCheck.out.kind = "UninitializedDatabase"
           /\ (initPc = "done" /\ lastCheck.saw # {}) =>
                  lastCheck.out = Return(None)

C1_Witness ==
    /\ initPc = "done"
    /\ lastCheck.op = "check_database"
    /\ lastCheck.saw = heads
    /\ lastCheck.out = Return(None)

\* C5: on a store with exactly one head that is not a recognized revision,
\* check_database raises UnrecognizedDatabase, and neither
\* UninitializedDatabase nor DatabaseUpgradeNeeded.
C5_UnrecognizedHead ==
    /\ \A r \in Revisions :
           (heads = {r} /\ r \notin known) =>
               check_database(heads, known).kind = "UnrecognizedDatabase"
    /\ \A r \in Revisions :
           (lastCheck.op = "check_database" /\ lastCheck.saw = {r}
                /\ r \notin known) =>
               lastCheck.out.kind = "UnrecognizedDatabase"

C5_Witness ==
    /\ lastCheck.op = "check_database"
    /\ lastCheck.saw = {OLDER_REVISION}
    /\ OLDER_REVISION \notin known
    /\ lastCheck.out.kind = "UnrecognizedDatabase"

C7_MultipleHeadsKept ==
    [][ ((CheckDatabaseCall \/ GetCurrentRevisionCall)
            /\ Cardinality(heads) > 1) =>
           /\ lastCheck'.out.kind = "UnrecognizedDatabase"
           /\ lastCheck'.out.mentions = heads
           /\ heads' = heads ]_vars

C7_Witness ==
    /\ lastCheck.op = "check_database"
    /\ lastCheck.saw = {REQUIRED_REVISION, OLDER_REVISION}
    /\ lastCheck.saw \subseteq known
    /\ heads = lastCheck.saw
    /\ lastCheck.out = Raise("UnrecognizedDatabase", heads)

\* C8: a call of check_database or get_current_revision, whatever the state
\* of the store and whatever its outcome, changes nothing in the store:
\* heads, roles, principals, role bindings, identities and expirable records
\* are as before.
C8_CheckIsReadOnly ==
    [][ (CheckDatabaseCall \/ GetCurrentRevisionCall) =>
           UNCHANGED storeVars ]_vars

C8_Witness ==
    /\ lastCheck.op = "check_database"
    /\ lastCheck.out.kind = "UnrecognizedDatabase"
    /\ lastCheck.saw = heads
    /\ Cardinality(heads) = 2
    /\ identities # {}
    /\ records # {}
    /\ principal_role # EmptyBag

\* ------------------------------------------- claims: identity provisioning

Keys == Providers \X ExternalIds
RolesSeeded == {"user", "admin"} \subseteq RoleNames(roles)

\* The calls of op for the identity k that have ended, by their place in log.
EndedCalls(op, k) ==
    {n \in 1..Len(log) :
        log[n].op = op /\ log[n].provider = k[1] /\ log[n].id = k[2]}

Bindings(p, r) == CopiesIn(<<p, r>>, principal_role)

\* C2: with calls made one after another on a store holding both roles,
\* every make_admin_by_identity call succeeds, and after two of them for one
\* (provider, id) the identity has one Identity row and one Principal, made by
\* at most one of the calls and returned by all of them, that holds exactly
\* one user binding and exactly one admin binding.
C2_MakeAdminTwice ==
    (~ overlapped /\ RolesSeeded) =>
        \A k \in Keys :
            LET done == EndedCalls("make_admin_by_identity", k)
                hit == FindIdentity(identities, k[1], k[2])
            IN  /\ \A n \in done : log[n].result = "ok"
                /\ Cardinality(done) >= 2 =>
                      /\ Cardinality(hit) = 1
                      /\ Cardinality({n \in done :
                                        "principal" \in log[n].wrote}) <= 1
                      /\ \A i \in hit :
                            /\ \A n \in done : log[n].ret = i.principal_id
                            /\ Bindings(i.principal_id, "user") = 1
                            /\ Bindings(i.principal_id, "admin") = 1
                            /\ RolesOf(principal_role, i.principal_id)
                                   = {"user", "admin"}

C2_Witness ==
    /\ ~ overlapped
    /\ RolesSeeded
    /\ Len(log) = 2
    /\ \A n \in 1..2 :
          /\ log[n].op = "make_admin_by_identity"
          /\ log[n].provider = "local" /\ log[n].id = "alice"
          /\ log[n].result = "ok"
    /\ ~ log[1].found
    /\ log[2].found
    /\ log[2].wrote = {}

\* C3: when every call made is a make_admin_by_identity call, each on its own
\* session and in any interleaving, the store they leave holds no role
\* binding twice and, for each (provider, id), at most one Principal made for
\* it.
C3_ConcurrentMakeAdmin ==
    (/\ RolesSeeded
     /\ \A s \in Sessions : ~ Busy(s)
     /\ \A n \in 1..Len(log) : log[n].op = "make_admin_by_identity") =>
        /\ \A row \in BagToSet(principal_role) :
              CopiesIn(row, principal_role) = 1
        /\ \A k \in Keys :
              Cardinality({p \in 1..Len(principals) :
                              principals[p].madeFor = k}) <= 1

\* C4: a write operation that ends with an exception has left none of its
\* writes in the store: a failed create_user call wrote nothing; in a failed
\* make_admin_by_identity call the role grant wrote nothing and the
\* create_user it ran wrote all of its rows or none, so a create_user that
\* fails on its Identity row leaves no Principal.
C4_AllOrNothing ==
    \A n \in 1..Len(log) :
        log[n].result # "ok" =>
            /\ log[n].op = "create_user" => log[n].wrote = {}
            /\ log[n].op = "make_admin_by_identity" =>
                  /\ "binding:admin" \notin log[n].wrote
                  /\ "principal" \in log[n].wrote =>
                         "identity" \in log[n].wrote

\* C9: a make_admin_by_identity call that follows a successful create_user
\* for the same (provider, id) returns the Principal id create_user returned
\* (and does return when calls are made one after another on a store that
\* holds both roles); a
\* make_admin_by_identity call that finds the Identity row writes no
\* Principal and no Identity.
C9_SamePrincipal ==
    /\ \A k \in Keys :
          \A a \in EndedCalls("create_user", k) :
              \A b \in EndedCalls("make_admin_by_identity", k) :
                  (a <= log[b].after /\ log[a].result = "ok") =>
                      /\ log[b].found
                      /\ log[b].result = "ok" => log[b].ret = log[a].ret
                      /\ (~ overlapped /\ RolesSeeded) =>
                             log[b].result = "ok"
    /\ \A n \in 1..Len(log) :
          (log[n].op = "make_admin_by_identity" /\ log[n].found) =>
              log[n].wrote \cap {"principal", "identity"} = {}
    /\ \A s \in Sessions :
          (Busy(s) /\ call[s].found) =>
              call[s].wrote \cap {"principal", "identity"} = {}

C9_Witness ==
    /\ Len(log) >= 2
    /\ log[1].op = "create_user" /\ log[1].result = "ok"
    /\ log[2].op = "make_admin_by_identity" /\ log[2].result = "ok"
    /\ log[1].provider = log[2].provider /\ log[1].id = log[2].id
    /\ log[2].ret = log[1].ret
    /\ Len(principals) = 1
    /\ Cardinality(identities) = 1
    /\ "binding:admin" \in log[2].wrote

\* ---------------------------------------------------- claims: the reaper

\* C10: the step that ends a purge_expired(cls) call with cutoff now removes
\* every row of cls whose expiration_time is set and earlier than now, keeps
\* every row whose expiration_time is NULL or later than now and every row of
\* another kind, and returns normally; when no row of cls is expired it
\* removes nothing.
C10_PurgeExpired ==
    [][ \A s \in Sessions :
          (pc[s] = "purge_commit" /\ pc'[s] = "idle") =>
            LET c == call[s]
                expired == {r \in records :
                              /\ r.kind = c.kind
                              /\ r.expiration_time # Null
                              /\ r.expiration_time[1] < c.now}
            IN  /\ \A r \in expired : r \notin records'
                /\ \A r \in records :
                      (r.expiration_time = Null
                          \/ r.expiration_time[1] > c.now
                          \/ r.kind # c.kind) => r \in records'
                /\ expired = {} => records' = records
                /\ records' \subseteq records
                /\ log'[Len(log')].result = "ok" ]_vars

C10_Witness ==
    /\ Len(log) = 1
    /\ log[1].op = "purge_expired" /\ log[1].kind = "APIKey"
    /\ log[1].now = 1
    /\ log[1].wrote = {"delete"}
    /\ records = {[id |-> 2, kind |-> "APIKey", expiration_time |-> Null]}

\* ------------------------------------------ claims: bootstrap and registry

\* C11: after initialize_database has completed on a fresh store the Role
\* table holds exactly two rows, user with scopes read:metadata, read:data,
\* apikeys and admin with scopes read:metadata, read:data, admin:apikeys,
\* read:principals, metrics, in that order, and the lookup of admin yields
\* that admin list.
C11_DefaultRolesSeeded ==
    (initPc = "done" /\ initAttempts = 1) =>
        /\ Len(roles) = 2
        /\ RoleNames(roles) = {"user", "admin"}
        /\ FindRole(roles, "user") = "user"
        /\ FindRole(roles, "admin") = "admin"
        /\ ScopesOf(roles, "user")
              = <<"read:metadata", "read:data", "apikeys">>
        /\ ScopesOf(roles, "admin")
              = <<"read:metadata", "read:data", "admin:apikeys",
                  "read:principals", "metrics">>

C11_Witness ==
    /\ initPc = "done"
    /\ initAttempts = 1
    /\ Len(roles) = 2
    /\ heads = {REQUIRED_REVISION}

\* C14: check_database returns normally exactly when the store has one head
\* and it is the required revision; otherwise it raises UninitializedDatabase
\* (no head), UnrecognizedDatabase (several heads, or one unrecognized) or
\* DatabaseUpgradeNeeded (one recognized head other than the required one),
\* each exactly in its case; get_current_revision returns None exactly when
\* there is no head and returns the head exactly when there is one recognized
\* head.
C14_CheckOutcomes ==
    LET c == check_database(heads, known)
        g == get_current_revision(heads, known)
        one == Cardinality(heads) = 1
    IN  /\ c = Return(None) <=> heads = {REQUIRED_REVISION}
        /\ c.kind = "UninitializedDatabase" <=> heads = {}
        /\ c.kind = "UnrecognizedDatabase" <=>
              (Cardinality(heads) > 1 \/ (one /\ ~ (heads \subseteq known)))
        /\ c.kind = "DatabaseUpgradeNeeded" <=>
              (one /\ heads \subseteq known /\ heads # {REQUIRED_REVISION})
        /\ c.kind \in {"return", "UninitializedDatabase",
                       "UnrecognizedDatabase", "DatabaseUpgradeNeeded"}
        /\ g = Return(None) <=> heads = {}
        /\ \A r \in Revisions :
              g = Return(r) <=> (heads = {r} /\ r \in known)
        /\ lastCheck.op = "check_database" =>
              (lastCheck.out = Return(None)
                  <=> lastCheck.saw = {REQUIRED_REVISION})
        /\ lastCheck.op = "get_current_revision" =>
              (lastCheck.out = Return(None) <=> lastCheck.saw = {})

C14_Witness ==
    /\ initAttempts = 0
    /\ lastCheck.op = "get_current_revision"
    /\ lastCheck.saw = {OLDER_REVISION}
    /\ lastCheck.out = Return(OLDER_REVISION)
    /\ check_database(heads, known).kind = "DatabaseUpgradeNeeded"

C18_StampAfterRoles ==
    initAttempts >= 1 =>
        /\ check_database(heads, known) = Return(None) =>
              (tables /\ {"user", "admin"} \subseteq RoleNames(roles))
        /\ heads # {} =>
              (tables /\ {"user", "admin"} \subseteq RoleNames(roles))
        /\ initPc = "stamp" => {"user", "admin"} \subseteq RoleNames(roles)

C18_Witness ==
    /\ initAttempts = 2
    /\ initPc = "done"
    /\ lastCheck.op = "check_database"
    /\ lastCheck.saw = heads
    /\ lastCheck.out = Return(None)
    /\ {"user", "admin"} \subseteq RoleNames(roles)

\* ----------------------------------- claims: provisioning, further claims

\* C12: a create_user call on a store without the user role, and a
\* make_admin_by_identity call on a store without the admin role, ends with
\* the MisconfiguredRegistry error, and no principal is bound to a role the
\* Role table does not hold.
C12_MisconfiguredRegistry ==
    /\ \A n \in 1..Len(log) :
          /\ (log[n].op = "create_user" /\ "user" \notin RoleNames(roles)) =>
                log[n].result = "MisconfiguredRegistry"
          /\ (log[n].op = "make_admin_by_identity"
                 /\ "admin" \notin RoleNames(roles)) =>
                log[n].result = "MisconfiguredRegistry"
    /\ \A row \in BagToSet(principal_role) : row[2] \in RoleNames(roles)

\* C13: after a make_admin_by_identity call that returned, the Identity
\* (provider, id) is in the store, bound to the returned Principal, which
\* holds the user and the admin role; a call that found no Identity made one
\* Principal of type user and one Identity, a call that found it made none;
\* every Principal and Identity row is accounted for by one call.
C13_MakeAdminPostcondition ==
    /\ \A n \in 1..Len(log) :
          (log[n].op = "make_admin_by_identity" /\ log[n].result = "ok") =>
              LET hit == FindIdentity(identities, log[n].provider, log[n].id)
                  p == log[n].ret
              IN  /\ Cardinality(hit) = 1
                  /\ \A i \in hit : i.principal_id = p
                  /\ p \in 1..Len(principals)
                  /\ {"user", "admin"} \subseteq RolesOf(principal_role, p)
                  /\ ~ log[n].found =>
                        /\ {"principal", "identity"} \subseteq log[n].wrote
                        /\ principals[p].type = "user"
                        /\ principals[p].madeFor
                              = <<log[n].provider, log[n].id>>
                  /\ log[n].found =>
                        log[n].wrote \cap {"principal", "identity"} = {}
    /\ Len(principals)
          = Cardinality({n \in 1..Len(log) : "principal" \in log[n].wrote})
            + Cardinality({s \in Sessions : "principal" \in call[s].wrote})
    /\ Cardinality(identities)
          = Cardinality({n \in 1..Len(log) : "identity" \in log[n].wrote})
            + Cardinality({s \in Sessions : "identity" \in call[s].wrote})

C13_Witness ==
    /\ Len(log) = 1
    /\ log[1].op = "make_admin_by_identity"
    /\ log[1].provider = "orcid"
    /\ log[1].result = "ok"
    /\ ~ log[1].found
    /\ Len(principals) = 1
    /\ RolesOf(principal_role, 1) = {"user", "admin"}

\* C16: in every committed state of the store that create_user and
\* make_admin_by_identity calls reach, between the two commits of create_user
\* too, each Identity row names a Principal that exists and no two Identity
\* rows share (provider, id), also after create_user is called again for a
\* pair that has its Identity.
C16_IdentityIntegrity ==
    /\ \A i \in identities : i.principal_id \in 1..Len(principals)
    /\ \A i, j \in identities :
          (i.provider = j.provider /\ i.id = j.id) => i = j

C16_Witness ==
    /\ Len(log) = 2
    /\ log[1].op = "create_user" /\ log[1].result = "ok"
    /\ log[2].op = "create_user" /\ log[2].result = "IntegrityError"
    /\ log[1].provider = log[2].provider
    /\ Cardinality(identities) = 1
    /\ Len(principals) = 2

\* ------------------------------------------- claims: the reaper, commits

\* C15: the step that ends a purge_expired(cls) call commits once when the
\* call marked at least one row for deletion and does not commit when it
\* marked none, in which case the table is as before; either way it returns
\* cls.
C15_PurgeCommits ==
    [][ \A s \in Sessions :
          (pc[s] = "purge_commit" /\ pc'[s] = "idle") =>
            LET c == call[s]
                e == log'[Len(log')]
            IN  /\ e.op = "purge_expired"
                /\ e.commits = IF c.objs # {} THEN 1 ELSE 0
                /\ e.commits = 0 => records' = records
                /\ records' # records => e.commits = 1
                /\ e.result = "ok"
                /\ e.ret = c.kind ]_vars

C15_Witness ==
    /\ Len(log) = 2
    /\ log[1].op = "purge_expired" /\ log[1].commits = 1
    /\ log[2].op = "purge_expired" /\ log[2].commits = 0
    /\ log[1].kind = log[2].kind
    /\ log[1].ret = log[1].kind /\ log[2].ret = log[2].kind

====
